---- MODULE Spec2Model ----
(***************************************************************************)
(* Form-state container (useFormState) and the address resolution          *)
(* workflow of App: search submission, lookup resolution, selection,       *)
(* personal-info submission and "Clear all fields".                        *)
(*                                                                         *)
(* Every React event handler runs to completion against the state of the   *)
(* latest render, so each handler is one action.  The only asynchronous    *)
(* step is the lookup: handleAddressSubmit suspends at `await fetch`, and   *)
(* the rest of the handler (the code after the await, with its catch and   *)
(* finally) runs as a later action, once per outstanding request, in any   *)
(* order.                                                                  *)
(***************************************************************************)
EXTENDS Integers, Sequences, FiniteSets, TLC

VARIABLES
    initialValues,  \* useFormState's argument: the reset target
    fields,         \* useFormState's state: field name -> text
    loading,        \* App: React.useState(false)
    error,          \* App: React.useState<undefined | string>(undefined)
    addresses,      \* App: React.useState<AddressType[]>([])
    requests,       \* lookups awaiting their response, in dispatch order
    added,          \* the records the latest step handed to addAddress
    last            \* the latest event: which handler ran, on which input

vars == <<initialValues, fields, loading, error, addresses, requests, added, last>>

----------------------------------------------------------------------------
(* Bounds *)

\* most lookups outstanding at once
MaxInFlight == 2
\* most raw entries in one lookup response
MaxDetails == 2

----------------------------------------------------------------------------
(* JavaScript values *)

\* the value `undefined` where a string is expected
Undefined == "<undefined>"

\* !v is false: v is neither undefined nor the empty string
Truthy(v) == v # Undefined /\ v # ""

\* a string and a number, kept apart as === keeps them apart
Str(s) == [type |-> "string", str |-> s, num |-> 0]
Num(n) == [type |-> "number", str |-> "", num |-> n]

\* new Error(m).message: the empty string when m is undefined
ErrorMessage(m) == IF m = Undefined THEN "" ELSE m

----------------------------------------------------------------------------
(* Messages *)

MandatoryAddressMsg == "Post code and house number are mandatory!"
GenericFetchMsg == "Failed to fetch addresses"
MandatoryNamesMsg == "First name and last name fields mandatory!"
NoAddressSelectedMsg == "No address selected, try to select an address or find one if you haven't"
AddressNotFoundMsg == "Selected address not found"

----------------------------------------------------------------------------
(* The form of App *)

AppDefaults ==
    [postCode |-> "", houseNumber |-> "", firstName |-> "", lastName |-> "",
     selectedAddress |-> ""]

\* what the user may type into each text input
TextValues ==
    [postCode |-> {"", "1000 AA"}, houseNumber |-> {"", "1", "2"},
     firstName |-> {"", "Ann"}, lastName |-> {"", "Lee"}]

----------------------------------------------------------------------------
(* Lookup responses *)

RawIds == {"a1", "a2"}

\* a raw address entry of the response body's `details`
RawEntry(id) ==
    [id |-> id, street |-> "Main", city |-> "Town", postcode |-> "1000 AA"]

\* the identifiers of the `details` lists a response may carry: unique
\* within one response, at most MaxDetails entries
DetailsLists ==
    {d \in UNION {[1..n -> RawIds] : n \in 0..MaxDetails} :
        \A i, j \in DOMAIN d : d[i] = d[j] => i = j}

\* error texts a failure body may carry; Undefined: the body has no errormessage
ServerMessages == {"not found", Undefined}

\* the message of the TypeError a failed fetch rejects with (engine-defined)
EngineMessages == {"Failed to fetch", "NetworkError when attempting to fetch resource."}

\* what a lookup can come back with:
\*   ok      response.ok, body {details: [...]}
\*   notOk   !response.ok, body {errormessage?: string}
\*   reject  fetch() rejects (transport failure)
Responses ==
    {[kind |-> "ok", details |-> [i \in DOMAIN d |-> RawEntry(d[i])],
      message |-> Undefined] : d \in DetailsLists} \cup
    [kind : {"notOk"}, details : {<<>>}, message : ServerMessages] \cup
    [kind : {"reject"}, details : {<<>>}, message : EngineMessages]

NoResp == [kind |-> "none", details |-> <<>>, message |-> Undefined]
NoReq == [postcode |-> "", streetnumber |-> "", houseNumber |-> ""]

\* an event: the handler that ran, the name and value of its change event,
\* the request and response of a resolution, the fields, candidate list and
\* error it found, and two facts about the run so far:
\*   quiet  no search or personal-info submission since "Clear all fields"
\*   fresh  the selection was picked from the response now in the list
Event(op, name, value, req, resp) ==
    [op |-> op, name |-> name, value |-> value, req |-> req, resp |-> resp,
     before |-> fields,
     shown |-> [addresses |-> addresses, error |-> error],
     quiet |-> IF op = "clearAllFields" THEN TRUE
               ELSE IF op \in {"handleAddressSubmit", "handlePersonSubmit"}
                    THEN FALSE
                    ELSE last.quiet,
     fresh |-> IF op = "onChange" /\ name = "selectedAddress" THEN TRUE
               ELSE IF \/ op \in {"handleAddressSubmit", "clearAllFields"}
                       \/ op = "resolveLookup" /\ resp.kind = "ok"
                    THEN FALSE
                    ELSE last.fresh]

----------------------------------------------------------------------------
(* useFormState *)

\* variant: the update replaces the whole mapping by the edited key
setFieldsUpdater_Replace(prev, name, value) ==
    [k \in {name} |-> value]

\* setFields((prev) => ({...prev, [name]: value}))
setFieldsUpdater(prev, name, value) ==
    [k \in (DOMAIN prev) \cup {name} |-> IF k = name THEN value ELSE prev[k]]

\* variant: reset blanks every initial key instead of restoring its value
resetFieldsValue_Blank(init) ==
    [k \in DOMAIN init |-> ""]

\* setFields(initialValues)
resetFieldsValue(init) == init

\* variant: the reset is never applied to the state
resetFields_Noop ==
    fields' = fields

onChange(name, value) ==
    fields' = setFieldsUpdater(fields, name, value)

resetFields ==
    fields' = resetFieldsValue(initialValues)

----------------------------------------------------------------------------
(* Address transform *)

\* raw lookup entry + house number -> resolved address: a field-for-field
\* copy plus the house number
transformAddress(data, houseNumber) ==
    [id |-> data.id, street |-> data.street, city |-> data.city,
     postcode |-> data.postcode, houseNumber |-> houseNumber]

\* data.details.map(transformAddress): Array.prototype.map calls its callback
\* with (element, index, array), so the second argument is the index
mapTransformAddress(details) ==
    [i \in 1..Len(details) |-> transformAddress(details[i], Num(i - 1))]

\* encodeURIComponent on the text values of this model
encodeURIComponent(s) ==
    IF s = "1000 AA" THEN "1000%20AA" ELSE s

\* URLSearchParams.toString() percent-encodes the appended value once more
urlSearchParamsToString(s) ==
    IF s = "1000%20AA" THEN "1000%2520AA" ELSE s

----------------------------------------------------------------------------
(* handleAddressSubmit *)

\* variant: the check fails only when both fields are empty
addressFieldsMissing_Both(f) ==
    ~Truthy(f.postCode) /\ ~Truthy(f.houseNumber)

\* !postCode || !houseNumber
addressFieldsMissing(f) ==
    ~Truthy(f.postCode) \/ ~Truthy(f.houseNumber)

\* the request dispatched by fetch, with the values the handler closed over
lookupRequest(f) ==
    [postcode |-> urlSearchParamsToString(encodeURIComponent(f.postCode)),
     streetnumber |-> urlSearchParamsToString(encodeURIComponent(f.houseNumber)),
     houseNumber |-> f.houseNumber]

\* variant: the mandatory-field check runs first, so a rejected submission
\* returns before the previous results are reset
handleAddressSubmit_ChecksFirst ==
    /\ IF addressFieldsMissing(fields)
       THEN /\ error' = MandatoryAddressMsg
            /\ UNCHANGED <<addresses, loading, requests>>
       ELSE /\ Len(requests) < MaxInFlight
            /\ addresses' = <<>>
            /\ loading' = TRUE
            /\ error' = Undefined
            /\ requests' = Append(requests, lookupRequest(fields))
    /\ added' = <<>>
    /\ last' = Event("handleAddressSubmit", "", "", NoReq, NoResp)
    /\ UNCHANGED <<initialValues, fields>>

\* the handler up to its early return or to `await fetch(...)`
handleAddressSubmit ==
    /\ addresses' = <<>>
    /\ loading' = TRUE
    /\ IF addressFieldsMissing(fields)
       THEN /\ error' = MandatoryAddressMsg
            /\ requests' = requests
       ELSE /\ Len(requests) < MaxInFlight
            /\ error' = Undefined
            /\ requests' = Append(requests, lookupRequest(fields))
    /\ added' = <<>>
    /\ last' = Event("handleAddressSubmit", "", "", NoReq, NoResp)
    /\ UNCHANGED <<initialValues, fields>>

\* what the try block throws for a response that is not a success
thrownBy(resp) ==
    IF resp.kind = "notOk"
    THEN [isError |-> TRUE, message |-> ErrorMessage(resp.message)]
    ELSE [isError |-> TRUE, message |-> resp.message]

\* error instanceof Error ? error.message : "Failed to fetch addresses"
catchMessage(thrown) ==
    IF thrown.isError THEN thrown.message ELSE GenericFetchMsg

Remove(seq, i) ==
    [j \in 1..(Len(seq) - 1) |-> IF j < i THEN seq[j] ELSE seq[j + 1]]

\* the handler from the await on, for the i-th outstanding request
resolveLookup(i, resp) ==
    /\ i \in 1..Len(requests)
    /\ IF resp.kind = "ok"
       THEN /\ addresses' = mapTransformAddress(resp.details)
            /\ error' = error
       ELSE /\ error' = catchMessage(thrownBy(resp))
            /\ addresses' = addresses
    /\ loading' = FALSE
    /\ requests' = Remove(requests, i)
    /\ added' = <<>>
    /\ last' = Event("resolveLookup", "", "", requests[i], resp)
    /\ UNCHANGED <<initialValues, fields>>

----------------------------------------------------------------------------
(* handlePersonSubmit *)

\* variant: the check fails only when both names are empty
namesMissing_Both(f) ==
    ~Truthy(f.firstName) /\ ~Truthy(f.lastName)

\* !fields.firstName || !fields.lastName
namesMissing(f) ==
    ~Truthy(f.firstName) \/ ~Truthy(f.lastName)

\* variant: the check looks at the selection field alone
noAddressSelected_FieldOnly(f, addrs) ==
    ~Truthy(f.selectedAddress)

\* !fields.selectedAddress || !addresses.length
noAddressSelected(f, addrs) ==
    ~Truthy(f.selectedAddress) \/ Len(addrs) = 0

\* variant: the search settles for the first candidate, whatever its id
find_First(addrs, id) ==
    IF Len(addrs) > 0 THEN 1 ELSE 0

\* addresses.find((address) => address.id === id): the index of the first
\* match, 0 when there is none
find(addrs, id) ==
    LET hits == {i \in 1..Len(addrs) : addrs[i].id = id}
    IN  IF hits = {} THEN 0 ELSE CHOOSE i \in hits : \A j \in hits : i <= j

\* variant: the two names end up in each other's place
finishedRecord_SwappedNames(foundAddress, f) ==
    [id |-> foundAddress.id, street |-> foundAddress.street,
     city |-> foundAddress.city, postcode |-> foundAddress.postcode,
     houseNumber |-> foundAddress.houseNumber,
     firstName |-> f.lastName, lastName |-> f.firstName]

\* {...foundAddress, firstName, lastName}
finishedRecord(foundAddress, f) ==
    [id |-> foundAddress.id, street |-> foundAddress.street,
     city |-> foundAddress.city, postcode |-> foundAddress.postcode,
     houseNumber |-> foundAddress.houseNumber,
     firstName |-> f.firstName, lastName |-> f.lastName]

\* the personal-info form is rendered only while fields.selectedAddress is set
personFormRendered ==
    Truthy(fields.selectedAddress)

\* variant: a successful submission also resets the form fields
handlePersonSubmit_ResetsForm ==
    /\ personFormRendered
    /\ IF namesMissing(fields)
       THEN /\ error' = MandatoryNamesMsg
            /\ added' = <<>>
            /\ fields' = fields
       ELSE IF noAddressSelected(fields, addresses)
       THEN /\ error' = NoAddressSelectedMsg
            /\ added' = <<>>
            /\ fields' = fields
       ELSE IF find(addresses, fields.selectedAddress) = 0
       THEN /\ error' = AddressNotFoundMsg
            /\ added' = <<>>
            /\ fields' = fields
       ELSE /\ error' = ""
            /\ added' = <<finishedRecord(
                            addresses[find(addresses, fields.selectedAddress)],
                            fields)>>
            /\ fields' = initialValues
    /\ last' = Event("handlePersonSubmit", "", "", NoReq, NoResp)
    /\ UNCHANGED <<initialValues, loading, addresses, requests>>

handlePersonSubmit ==
    /\ personFormRendered
    /\ IF namesMissing(fields)
       THEN /\ error' = MandatoryNamesMsg
            /\ added' = <<>>
       ELSE IF noAddressSelected(fields, addresses)
       THEN /\ error' = NoAddressSelectedMsg
            /\ added' = <<>>
       ELSE IF find(addresses, fields.selectedAddress) = 0
       THEN /\ error' = AddressNotFoundMsg
            /\ added' = <<>>
       ELSE /\ error' = ""
            /\ added' = <<finishedRecord(
                            addresses[find(addresses, fields.selectedAddress)],
                            fields)>>
    /\ last' = Event("handlePersonSubmit", "", "", NoReq, NoResp)
    /\ UNCHANGED <<initialValues, fields, loading, addresses, requests>>

----------------------------------------------------------------------------
(* The controls of App *)

\* the text inputs on screen: the search form always, the personal-info form
\* only while an address is selected
textInputRendered(name) ==
    \/ name \in {"postCode", "houseNumber"}
    \/ name \in {"firstName", "lastName"} /\ personFormRendered

\* typing into a text input
changeText(name, value) ==
    /\ textInputRendered(name)
    /\ value \in TextValues[name]
    /\ onChange(name, value)
    /\ added' = <<>>
    /\ last' = Event("onChange", name, value, NoReq, NoResp)
    /\ UNCHANGED <<initialValues, loading, error, addresses, requests>>

\* the value a candidate's radio input reports: the candidate's identifier
radioValue(address) == address.id

\* picking the radio of the i-th candidate on screen
selectAddress(i) ==
    /\ i \in 1..Len(addresses)
    /\ onChange("selectedAddress", radioValue(addresses[i]))
    /\ added' = <<>>
    /\ last' = Event("onChange", "selectedAddress", radioValue(addresses[i]),
                     NoReq, NoResp)
    /\ UNCHANGED <<initialValues, loading, error, addresses, requests>>

\* the onClick of "Clear all fields"
clearAllFields ==
    /\ resetFields
    /\ addresses' = <<>>
    /\ error' = Undefined
    /\ added' = <<>>
    /\ last' = Event("clearAllFields", "", "", NoReq, NoResp)
    /\ UNCHANGED <<initialValues, loading, requests>>

----------------------------------------------------------------------------
(* The application *)

Init ==
    /\ initialValues = AppDefaults
    /\ fields = AppDefaults
    /\ loading = FALSE
    /\ error = Undefined
    /\ addresses = <<>>
    /\ requests = <<>>
    /\ added = <<>>
    /\ last = [op |-> "init", name |-> "", value |-> "", req |-> NoReq,
               resp |-> NoResp, before |-> initialValues,
               shown |-> [addresses |-> <<>>, error |-> Undefined],
               quiet |-> FALSE, fresh |-> FALSE]

Next ==
    \/ \E name \in DOMAIN TextValues : \E value \in TextValues[name] :
          changeText(name, value)
    \/ \E i \in 1..MaxDetails : selectAddress(i)
    \/ handleAddressSubmit
    \/ \E i \in 1..MaxInFlight : \E resp \in Responses : resolveLookup(i, resp)
    \/ handlePersonSubmit
    \/ clearAllFields

Spec == Init /\ [][Next]_vars

----------------------------------------------------------------------------
(* The container on its own: any initial mapping, any change, reset *)

FormNames == {"postCode", "houseNumber"}
FormValues == {"", "1", "2"}

\* the initial mappings: every mapping of some of the names to values
FormDefaults ==
    UNION {[keys -> FormValues] : keys \in SUBSET FormNames}

FormInit ==
    /\ initialValues \in FormDefaults
    /\ fields = initialValues
    /\ loading = FALSE
    /\ error = Undefined
    /\ addresses = <<>>
    /\ requests = <<>>
    /\ added = <<>>
    /\ last = [op |-> "init", name |-> "", value |-> "", req |-> NoReq,
               resp |-> NoResp, before |-> initialValues,
               shown |-> [addresses |-> <<>>, error |-> Undefined],
               quiet |-> FALSE, fresh |-> FALSE]

FormOnChange(name, value) ==
    /\ onChange(name, value)
    /\ last' = Event("onChange", name, value, NoReq, NoResp)
    /\ UNCHANGED <<initialValues, loading, error, addresses, requests, added>>

FormReset ==
    /\ resetFields
    /\ last' = Event("resetFields", "", "", NoReq, NoResp)
    /\ UNCHANGED <<initialValues, loading, error, addresses, requests, added>>

FormNext ==
    \/ \E name \in FormNames : \E value \in FormValues : FormOnChange(name, value)
    \/ FormReset

SpecForm == FormInit /\ [][FormNext]_vars

----------------------------------------------------------------------------
(* Properties of the container *)

\* C1: whatever the initial mapping and whatever onChange calls came before,
\* reset leaves the field state equal to the initial mapping: the same keys,
\* the same values, no extra key.
C1_ResetRestoresInitial ==
    last.op = "resetFields" =>
        /\ DOMAIN fields = DOMAIN initialValues
        /\ \A k \in DOMAIN initialValues : fields[k] = initialValues[k]

\* a reset that undid edits: it dropped a key that an onChange had added and
\* restored a non-empty initial value that an onChange had overwritten
C1_Witness ==
    /\ last.op = "resetFields"
    /\ DOMAIN last.before # DOMAIN initialValues
    /\ \E k \in DOMAIN initialValues :
          initialValues[k] # "" /\ last.before[k] # initialValues[k]
    /\ fields = initialValues

\* C2: onChange(name, v) sets key name to v and leaves every other key of the
\* field state present with the value it had, in every state that onChange
\* and reset calls reach.
C2_OnChangeFrame ==
    last.op = "onChange" =>
        /\ last.name \in DOMAIN fields
        /\ fields[last.name] = last.value
        /\ \A k \in (DOMAIN last.before) \ {last.name} :
              k \in DOMAIN fields /\ fields[k] = last.before[k]

\* an onChange that changed one key while another key held a non-empty value
C2_Witness ==
    /\ last.op = "onChange"
    /\ last.name \in DOMAIN last.before
    /\ last.before[last.name] # last.value
    /\ \E k \in (DOMAIN last.before) \ {last.name} :
          last.before[k] # "" /\ fields[k] = last.before[k]

----------------------------------------------------------------------------
(* Properties of the search submission *)

\* C3: a search submitted while postCode or houseNumber (or both) is empty
\* sets the error to the mandatory-fields message and dispatches no lookup.
C3_EmptySearchRejected ==
    [][(/\ last'.op = "handleAddressSubmit"
        /\ (fields.postCode = "" \/ fields.houseNumber = ""))
       => (/\ error' = MandatoryAddressMsg
           /\ requests' = requests)]_vars

\* a search submitted with a post code and no house number was rejected
C3_Witness ==
    /\ last.op = "handleAddressSubmit"
    /\ fields.postCode # ""
    /\ fields.houseNumber = ""
    /\ error = MandatoryAddressMsg
    /\ requests = <<>>

----------------------------------------------------------------------------
(* Properties of the lookup resolution *)

\* C4: after a lookup resolves successfully, every entry of the candidate
\* list carries as houseNumber the houseNumber field value read when that
\* search was submitted.
C4_HouseNumberOfSubmission ==
    (last.op = "resolveLookup" /\ last.resp.kind = "ok") =>
        \A i \in 1..Len(addresses) :
            addresses[i].houseNumber = Str(last.req.houseNumber)

\* C5: when a lookup resolves with a success response carrying n raw entries,
\* the candidate list is exactly the n candidates of those entries, with their
\* identifiers and in response order, the error slot holds no message and
\* loading is false.
C5_SuccessReplacesCandidates ==
    (last.op = "resolveLookup" /\ last.resp.kind = "ok") =>
        /\ Len(addresses) = Len(last.resp.details)
        /\ \A i \in 1..Len(addresses) : addresses[i].id = last.resp.details[i].id
        /\ error \in {Undefined, ""}
        /\ loading = FALSE

\* C6: when a lookup resolves with a non-success response whose body carries
\* errormessage m, the error becomes m, the candidate list is empty and
\* loading is false.
C6_FailureCarriesMessage ==
    (/\ last.op = "resolveLookup"
     /\ last.resp.kind = "notOk"
     /\ last.resp.message # Undefined) =>
        /\ error = last.resp.message
        /\ addresses = <<>>
        /\ loading = FALSE

\* C7: when a lookup fails without carried error text (a non-success response
\* without errormessage, or a transport failure), the error becomes the
\* generic "Failed to fetch addresses".
C7_FailureWithoutTextIsGeneric ==
    (/\ last.op = "resolveLookup"
     /\ \/ last.resp.kind = "notOk" /\ last.resp.message = Undefined
        \/ last.resp.kind = "reject") =>
        error = GenericFetchMsg

----------------------------------------------------------------------------
(* Properties of the personal-info submission *)

\* C8: personal info submitted while firstName or lastName is empty sets the
\* error to the mandatory-names message and hands nothing to addAddress,
\* whatever the selection and the candidate list are.
C8_NamesMandatory ==
    [][(/\ last'.op = "handlePersonSubmit"
        /\ (fields.firstName = "" \/ fields.lastName = ""))
       => (/\ error' = MandatoryNamesMsg
           /\ added' = <<>>)]_vars

\* a submission with one name missing was rejected for the names although its
\* selection matched no candidate either (the list was empty)
C8_Witness ==
    /\ last.op = "handlePersonSubmit"
    /\ fields.firstName = ""
    /\ fields.lastName # ""
    /\ fields.selectedAddress # ""
    /\ addresses = <<>>
    /\ error = MandatoryNamesMsg
    /\ added = <<>>

\* C9: personal info submitted with both names while selectedAddress is empty
\* or the candidate list is empty sets the error to the no-address-selected
\* message and hands nothing to addAddress.
C9_SelectionMandatory ==
    [][(/\ last'.op = "handlePersonSubmit"
        /\ fields.firstName # ""
        /\ fields.lastName # ""
        /\ (fields.selectedAddress = "" \/ Len(addresses) = 0))
       => (/\ error' = NoAddressSelectedMsg
           /\ added' = <<>>)]_vars

\* a submission with both names and a selection, made after a new search had
\* emptied the candidate list, was rejected
C9_Witness ==
    /\ last.op = "handlePersonSubmit"
    /\ fields.firstName # ""
    /\ fields.lastName # ""
    /\ fields.selectedAddress # ""
    /\ addresses = <<>>
    /\ error = NoAddressSelectedMsg
    /\ added = <<>>

\* C10: personal info submitted with both names, a non-empty selectedAddress
\* and a non-empty candidate list none of whose identifiers equals
\* selectedAddress sets the error to "Selected address not found" and hands
\* nothing to addAddress.
C10_SelectionMustMatch ==
    [][(/\ last'.op = "handlePersonSubmit"
        /\ fields.firstName # ""
        /\ fields.lastName # ""
        /\ fields.selectedAddress # ""
        /\ Len(addresses) > 0
        /\ \A i \in 1..Len(addresses) : addresses[i].id # fields.selectedAddress)
       => (/\ error' = AddressNotFoundMsg
           /\ added' = <<>>)]_vars

\* a submission whose selection dated from an earlier response was rejected:
\* the list on screen held a candidate, but none with the selected identifier
C10_Witness ==
    /\ last.op = "handlePersonSubmit"
    /\ fields.firstName # ""
    /\ fields.lastName # ""
    /\ fields.selectedAddress # ""
    /\ Len(addresses) > 0
    /\ \A i \in 1..Len(addresses) : addresses[i].id # fields.selectedAddress
    /\ error = AddressNotFoundMsg
    /\ added = <<>>


\* C11: addAddress is invoked exactly once by a personal-info submission that
\* passes all three preconditions and by no other step; the record is the
\* candidate of the current list whose identifier equals selectedAddress,
\* with the current firstName and lastName, and the error slot is empty
\* afterward.
C11_AddAddressOnValidSubmission ==
    [][IF /\ last'.op = "handlePersonSubmit"
          /\ fields.firstName # ""
          /\ fields.lastName # ""
          /\ fields.selectedAddress # ""
          /\ \E i \in 1..Len(addresses) : addresses[i].id = fields.selectedAddress
       THEN /\ Len(added') = 1
            /\ \E i \in 1..Len(addresses) :
                  /\ addresses[i].id = fields.selectedAddress
                  /\ DOMAIN added'[1] =
                        (DOMAIN addresses[i]) \cup {"firstName", "lastName"}
                  /\ \A k \in DOMAIN addresses[i] : added'[1][k] = addresses[i][k]
            /\ added'[1].firstName = fields.firstName
            /\ added'[1].lastName = fields.lastName
            /\ error' \in {"", Undefined}
       ELSE added' = <<>>]_vars

\* a submission handed over the second of two candidates with both names
C11_Witness ==
    /\ last.op = "handlePersonSubmit"
    /\ Len(added) = 1
    /\ Len(addresses) = 2
    /\ fields.selectedAddress = addresses[2].id
    /\ added[1].id = addresses[2].id
    /\ added[1].firstName = "Ann"
    /\ added[1].lastName = "Lee"
    /\ error = ""

----------------------------------------------------------------------------
(* Properties of the loading flag *)

\* C12: in every state reached once a workflow step has finished, loading
\* being true and the error message being non-empty do not both hold.
C12_LoadingExcludesError ==
    ~(loading /\ Truthy(error))

\* C13: after a search submission that fails the mandatory-field check,
\* loading is true only if some lookup request is still outstanding.
C13_RejectedSearchKeepsLoadingConsistent ==
    (/\ last.op = "handleAddressSubmit"
     /\ (fields.postCode = "" \/ fields.houseNumber = "")) =>
        (loading => Len(requests) > 0)

\* C18: loading is true in every state in which at least one lookup request
\* is outstanding.
C18_LoadingWhileOutstanding ==
    Len(requests) > 0 => loading

----------------------------------------------------------------------------
(* Properties of overlapping lookups and of "Clear all fields" *)

\* C14: when two search submissions overlap, both requests run to completion
\* and, once both have resolved, the visible candidate list and error message
\* are those produced by the request that resolved last, and loading is
\* false.  Stated for two resolutions in a row, the first of which left
\* exactly its own result on screen and the second of which leaves no
\* request outstanding.
C14_LastResolutionWins ==
    [][(/\ last.op = "resolveLookup"
        /\ last'.op = "resolveLookup"
        /\ requests' = <<>>
        /\ IF last.resp.kind = "ok"
           THEN /\ Len(addresses) = Len(last.resp.details)
                /\ \A i \in 1..Len(addresses) :
                      addresses[i].id = last.resp.details[i].id
                /\ error = Undefined
           ELSE /\ addresses = <<>>
                /\ Truthy(error))
       => (/\ loading' = FALSE
           /\ IF last'.resp.kind = "ok"
              THEN /\ Len(addresses') = Len(last'.resp.details)
                   /\ \A i \in 1..Len(addresses') :
                         addresses'[i].id = last'.resp.details[i].id
                   /\ error' \in {Undefined, ""}
              ELSE /\ addresses' = <<>>
                   /\ (last'.resp.message # Undefined
                          => error' = last'.resp.message))]_vars

\* C15: "Clear all fields", from any reachable state, leaves every form field
\* equal to its initial value (the empty string), the candidate list empty
\* and the error slot without a message.
C15_ClearResetsEverything ==
    last.op = "clearAllFields" =>
        /\ fields = AppDefaults
        /\ \A k \in DOMAIN fields : fields[k] = ""
        /\ addresses = <<>>
        /\ error \in {Undefined, ""}

\* a clear that found text in the fields, a selection, candidates on screen
\* and an error message, and removed them all
C15_Witness ==
    /\ last.op = "clearAllFields"
    /\ last.before.postCode # ""
    /\ last.before.firstName # ""
    /\ last.before.selectedAddress # ""
    /\ Len(last.shown.addresses) > 0
    /\ Truthy(last.shown.error)
    /\ fields = AppDefaults
    /\ addresses = <<>>
    /\ error = Undefined

\* C16: every search submission, also one that fails the mandatory-field
\* check, resets the previous search's visible results: right after the
\* handler's synchronous part the candidate list is empty and no error
\* message of an earlier step remains (the only message there can be is the
\* one this submission set for its own empty field).
C16_SubmissionResetsResults ==
    last.op = "handleAddressSubmit" =>
        /\ addresses = <<>>
        /\ IF fields.postCode = "" \/ fields.houseNumber = ""
           THEN error = MandatoryAddressMsg
           ELSE error = Undefined

\* a rejected submission that found candidates and another step's message on
\* screen and removed both
C16_Witness ==
    /\ last.op = "handleAddressSubmit"
    /\ fields.houseNumber = ""
    /\ Len(last.shown.addresses) > 0
    /\ Truthy(last.shown.error)
    /\ last.shown.error # MandatoryAddressMsg
    /\ addresses = <<>>
    /\ error = MandatoryAddressMsg

\* C17: a personal-info submission, whether it succeeds or fails a
\* precondition, leaves the five form fields, the candidate list and the
\* loading flag unchanged and dispatches no lookup request.
C17_PersonSubmitFrame ==
    [][last'.op = "handlePersonSubmit"
       => (/\ fields' = fields
           /\ addresses' = addresses
           /\ loading' = loading
           /\ requests' = requests)]_vars

\* a successful submission made while a lookup was outstanding: the fields,
\* the list and the request are as it found them
C17_Witness ==
    /\ last.op = "handlePersonSubmit"
    /\ Len(added) = 1
    /\ Len(requests) = 1
    /\ fields = last.before
    /\ fields.firstName # ""
    /\ addresses = last.shown.addresses
    /\ error # last.shown.error

\* C19: after "Clear all fields", the candidate list stays empty and the
\* error slot stays without a message until the next search or personal-info
\* submission, also when a lookup that was outstanding at the clear resolves.
C19_ClearedUntilNextSubmission ==
    last.quiet => (addresses = <<>> /\ error \in {Undefined, ""})

\* C20: every record handed to addAddress is built from a candidate that was
\* selected out of the response now in the candidate list: a selection made
\* while an earlier response was displayed never leads to a record.
C20_RecordFromCurrentSelection ==
    added # <<>> => last.fresh

====
